---- MODULE Spec2Model ----
(***************************************************************************)
(* A model of the flux-lsp language server (src/server.rs): the document   *)
(* store behind its mutex, the four document notifications, the query      *)
(* requests, and the range replacement that didChange applies.             *)
(*                                                                         *)
(* A document is a sequence of one-byte characters; offsets are 0-based as *)
(* in the Rust code, so the character at offset i is contents[i + 1].      *)
(***************************************************************************)
EXTENDS Integers, Sequences, FiniteSets, TLC

VARIABLES
    store,      \* FileStore: the HashMap<Url, String>, a set of <<key, value>> pairs
    msg,        \* the message the server has received and not yet handled
    resp,       \* what the handler returned and logged, until the reply is sent
    opened,     \* history: <<uri, text>> inserted by did_open, until uri is changed, saved or closed
    closed,     \* history: the uris removed by did_close and not handed to did_open since
    built,      \* history: how often the function catalog was constructed (2: more than once)
    call,       \* the arguments of one call of a function examined on its own
    ret,        \* its result, once the call has been made
    rin,        \* the arguments of one call of replace_string_in_range
    rout,       \* its result
    rdone,      \* whether the call has been made
    pc,         \* per task: where it is in its handler
    req,        \* per task: the message it handles
    lock,       \* the store mutex: the task holding the guard, or NoTask
    contents,   \* per task: did_change's local `contents`
    idx,        \* per task: how many content changes did_change has applied
    pre,        \* history, per task: the text did_change found in the store
    snap,       \* per task: the text a query copied out of the store
    over,       \* history, per task: the did_change a query overlapped with
    borrow      \* the RefCell of the wasm Server's router: the task holding its RefMut, or NoTask

vars == <<store, msg, resp, opened, closed, built, call, ret, rin, rout, rdone,
          pc, req, lock, contents, idx, pre, snap, over, borrow>>

mainVars == <<store, msg, resp, opened, closed, built>>
callVars == <<call, ret>>
taskVars == <<pc, req, lock, contents, idx, pre, snap, over, borrow>>

----------------------------------------------------------------------------
(* Bounds and input domains *)

MaxLen == 3         \* documents given to replace_string_in_range have at most MaxLen bytes
MaxLine == 2        \* range positions have line in 0..MaxLine
MaxCol == 3         \* range positions have character in 0..MaxCol
MaxDoc == 3         \* did_change is followed while the document keeps at most MaxDoc bytes
MaxEvents == 2      \* a didChange notification carries at most MaxEvents content changes

NL == "\n"
Chars == {"a", "b", NL}

TextsUpTo(n) == UNION {[1..k -> Chars] : k \in 0..n}

Pos(l, c) == [line |-> l, character |-> c]
Rng(s, e) == [start |-> s, end |-> e]
Positions == {Pos(l, c) : l \in 0..MaxLine, c \in 0..MaxCol}
Ranges == {Rng(s, e) : s \in Positions, e \in Positions}

URIs == {"u1", "u2"}

----------------------------------------------------------------------------
(* line_col::LineColLookup, as replace_string_in_range and formatting use it *)

\* The line heads: offset 0 and the offset after every '\n'.
LineHeads(src) == {0} \cup {i \in 1..Len(src) : src[i] = NL}

SetMax(S) == CHOOSE m \in S : \A x \in S : x <= m

\* lookup.get(index): the 1-based <<line, column>> of byte offset index.
LineColLookup_get(src, index) ==
    LET before == {h \in LineHeads(src) : h <= index}
    IN  <<Cardinality(before), index - SetMax(before) + 1>>

----------------------------------------------------------------------------
(* replace_string_in_range *)

string_range_end_exclusive(i) == i

\* string_range.1 = i + 1
string_range_end(i) == i + 1

\* The for loop from offset i on, string_range being <<s0, s1>> so far.
RECURSIVE scan_range(_, _, _, _, _)
scan_range(src, range, i, s0, s1) ==
    IF i >= Len(src) THEN <<s0, s1>>
    ELSE LET linecol == LineColLookup_get(src, i)
             n0 == IF /\ linecol[1] = range.start.line + 1
                      /\ linecol[2] = range.start.character + 1
                   THEN i ELSE s0
         IN  IF /\ linecol[1] = range.end.line + 1
                /\ linecol[2] = range.end.character + 1
             THEN <<n0, string_range_end(i)>>
             ELSE scan_range(src, range, i + 1, n0, s1)

\* String::replace_range(a..b, new)
replace_range(src, a, b, new) ==
    SubSeq(src, 1, a) \o new \o SubSeq(src, b + 1, Len(src))

replace_string_in_range(src, range, new) ==
    LET string_range == scan_range(src, range, 0, 0, 0)
    IN  IF string_range[2] < string_range[1]
        THEN src
        ELSE replace_range(src, string_range[1], string_range[2], new)

----------------------------------------------------------------------------
(* The HashMap behind the store *)

keys(st) == {p[1] : p \in st}
contains_key(st, key) == key \in keys(st)
get(st, key) == (CHOOSE p \in st : p[1] = key)[2]
insert(st, key, value) == {p \in st : p[1] # key} \cup {<<key, value>>}
remove(st, key) == {p \in st : p[1] # key}

\* The entry of key, as a set: empty when key is absent.
entry(st, key) == {p \in st : p[1] = key}

----------------------------------------------------------------------------
(* Content changes *)

ZeroRange == Rng(Pos(0, 0), Pos(0, 0))
FullChange(text) == [ranged |-> FALSE, range |-> ZeroRange, text |-> text]
RangeChange(range, text) == [ranged |-> TRUE, range |-> range, text |-> text]

\* One iteration of did_change's loop.
apply_change(running, change) ==
    IF change.ranged
    THEN replace_string_in_range(running, change.range, change.text)
    ELSE change.text

apply_changes_to_original(original, changes) ==
    IF changes = <<>> THEN original
    ELSE apply_change(original, changes[Len(changes)])

\* did_change's loop over params.content_changes.
RECURSIVE apply_changes(_, _)
apply_changes(running, changes) ==
    IF changes = <<>> THEN running
    ELSE apply_changes(apply_change(running, Head(changes)), Tail(changes))

----------------------------------------------------------------------------
(* What each notification does to the store *)

did_open_overwriting(st, key, value) == insert(st, key, value)

did_open_store(st, key, value) ==
    IF contains_key(st, key) THEN st ELSE insert(st, key, value)

did_change_creating(st, key, changes) ==
    insert(st, key,
           apply_changes(IF contains_key(st, key) THEN get(st, key) ELSE <<>>, changes))

did_change_store(st, key, changes) ==
    IF ~contains_key(st, key) THEN st
    ELSE insert(st, key, apply_changes(get(st, key), changes))

did_save_creating(st, key, hasText, text) ==
    IF hasText THEN insert(st, key, text) ELSE st

\* A bug to tell from did_save_store: the text is stored under every uri.
did_save_every(st, key, hasText, text) ==
    IF hasText /\ contains_key(st, key) THEN {<<p[1], text>> : p \in st} ELSE st

did_save_store(st, key, hasText, text) ==
    IF hasText /\ contains_key(st, key) THEN insert(st, key, text) ELSE st

did_close_clearing(st, key) == {}

did_close_store(st, key) == remove(st, key)

----------------------------------------------------------------------------
(* Responses *)

NoValue == [of |-> "none"]

\* What a handler returns and logs; value is the payload of a successful
\* result, for the handlers whose payload is followed.
Resp(op, kind, code, log) ==
    [op |-> op, kind |-> kind, code |-> code, log |-> log, value |-> NoValue]

Valued(r, value) == [r EXCEPT !.value = value]

Notified(op, log) == Resp(op, "none", "", log)

file_not_opened_null == [kind |-> "null", code |-> ""]

file_not_opened == [kind |-> "error", code |-> "InvalidParams"]

----------------------------------------------------------------------------
(* Messages *)

DocTexts == {<<>>, <<"a">>, <<"a", NL>>, <<"a", NL, "b">>}

Changes ==
    { FullChange(<<"b">>),
      FullChange(<<>>),
      RangeChange(Rng(Pos(0, 0), Pos(0, 0)), <<"b", "b">>),
      RangeChange(Rng(Pos(0, 1), Pos(1, 0)), <<>>),
      RangeChange(Rng(Pos(1, 0), Pos(0, 0)), <<"b">>),
      RangeChange(Rng(Pos(0, 0), Pos(2, 0)), <<"b">>) }

ChangeLists == UNION {[1..k -> Changes] : k \in 0..MaxEvents}

Triggers == {"none", "Invoked", ".", ":", "(", ",", "\"", "x"}

AnalyzedRequests ==
    {"signature_help", "folding_range", "document_symbol",
     "goto_definition", "rename", "references"}

\* external is what the library the handler calls on the stored text
\* (parse_and_analyze, flux::formatter::format) answers for this request.
Message(op, uri, hasText, text, changes, trigger, external) ==
    [op |-> op, uri |-> uri, hasText |-> hasText, text |-> text,
     changes |-> changes, trigger |-> trigger, external |-> external,
     node |-> "none", sigs |-> 0]

\* What find_node finds at the position of a signature_help request: nothing,
\* a call whose callee is pkg.f, f or another expression, or a node that is
\* no call.
Nodes == {"none", "call_member", "call_ident", "call_other", "other"}

\* The number of signatures the function catalog holds for the name at the
\* position.
MaxSigs == 2
Sigs == {0, MaxSigs}

\* The message m with the position resolved to node.
At(m, node, sigs) == [m EXCEPT !.node = node, !.sigs = sigs]

NoMessage == Message("none", "u1", FALSE, <<>>, <<>>, "none", "ok")

Outcomes == {"ok", "fail"}

Messages ==
    {Message("did_open", u, TRUE, t, <<>>, "none", "ok") : u \in URIs, t \in DocTexts}
        \cup {Message("did_change", u, FALSE, <<>>, c, "none", "ok") :
                  u \in URIs, c \in ChangeLists}
        \cup {Message("did_save", u, TRUE, t, <<>>, "none", "ok") :
                  u \in URIs, t \in DocTexts}
        \cup {Message("did_save", u, FALSE, <<>>, <<>>, "none", "ok") : u \in URIs}
        \cup {Message("did_close", u, FALSE, <<>>, <<>>, "none", "ok") : u \in URIs}
        \cup {Message(op, u, FALSE, <<>>, <<>>, "none", x) :
                  op \in AnalyzedRequests \cup {"formatting"}, u \in URIs, x \in Outcomes}
        \cup {At(Message("signature_help", u, FALSE, <<>>, <<>>, "none", "ok"), n, k) :
                  u \in URIs, n \in Nodes, k \in Sigs}
        \cup {Message("completion", u, FALSE, <<>>, <<>>, g, x) :
                  u \in URIs, g \in Triggers, x \in Outcomes}
        \cup {Message("hover", u, FALSE, <<>>, <<>>, "none", "ok") : u \in URIs}
        \cup {Message("completion_resolve", "u1", FALSE, <<>>, <<>>, "none", "ok")}

NoTask == "none"
Poisoned == "poisoned"
Tasks == {"t1", "t2"}

----------------------------------------------------------------------------
(* The server handling one message at a time: each handler is one action *)

NoResp == Resp("none", "none", "", "")

\* A message arrives once the previous one is answered.  A didChange that
\* would grow its document past MaxDoc bytes is not followed.
\* A step of the server leaves the other parts of the model alone.
ServerOnly ==
    UNCHANGED <<call, ret, rin, rout, rdone, pc, req, lock, contents, idx, pre, snap,
                over, borrow>>

Receive ==
    /\ msg = NoMessage
    /\ \E m \in Messages :
           /\ (m.op = "did_change" /\ contains_key(store, m.uri)) =>
                  Len(apply_changes(get(store, m.uri), m.changes)) <= MaxDoc
           /\ msg' = m
    /\ UNCHANGED <<store, resp, opened, closed, built>>
    /\ ServerOnly

\* The reply (for a notification: nothing) leaves the server.
Reply ==
    /\ resp # NoResp
    /\ resp' = NoResp
    /\ msg' = NoMessage
    /\ UNCHANGED <<store, opened, closed, built>>
    /\ ServerOnly

\* The handler of op starts on the received message.
Handling(op) == msg.op = op /\ resp = NoResp

\* self.store.lock() of a handler returns Err: a handler has panicked with
\* the guard in hand and the mutex is poisoned for the rest of the process.
lock_failed == lock = Poisoned

\* A bug to tell from lock_store: the handler goes on with the poisoned store.
lock_store_into_inner(st, new) == new

\* The store a notification leaves: what its body makes of it, or, when the
\* lock is not acquired, the store as it was.
lock_store(st, new) == IF lock_failed THEN st ELSE new

\* The error a request answers when the lock is not acquired.
lock_error == [kind |-> "error", code |-> "InternalError"]

did_open ==
    /\ Handling("did_open")
    /\ store' = lock_store(store, did_open_store(store, msg.uri, msg.text))
    /\ resp' = Notified("did_open",
                        IF lock_failed THEN "lock_failed"
                        ELSE IF contains_key(store, msg.uri) THEN "open_on_open"
                        ELSE "")
    /\ opened' = IF lock_failed \/ contains_key(store, msg.uri) THEN opened
                 ELSE insert(opened, msg.uri, msg.text)
    /\ closed' = IF lock_failed THEN closed ELSE closed \ {msg.uri}
    /\ UNCHANGED <<msg, built>>
    /\ ServerOnly

did_change ==
    /\ Handling("did_change")
    /\ store' = lock_store(store, did_change_store(store, msg.uri, msg.changes))
    /\ resp' = Notified("did_change",
                        IF lock_failed THEN "lock_failed"
                        ELSE IF contains_key(store, msg.uri) THEN ""
                        ELSE "unknown_file")
    /\ opened' = IF lock_failed THEN opened ELSE remove(opened, msg.uri)
    /\ UNCHANGED <<msg, closed, built>>
    /\ ServerOnly

\* did_save takes the lock only when the notification carries the text.
did_save ==
    /\ Handling("did_save")
    /\ store' = lock_store(store,
                           did_save_store(store, msg.uri, msg.hasText, msg.text))
    /\ resp' = Notified("did_save",
                        IF msg.hasText /\ lock_failed THEN "lock_failed"
                        ELSE IF msg.hasText /\ ~contains_key(store, msg.uri)
                        THEN "unknown_file" ELSE "")
    /\ opened' = IF lock_failed THEN opened ELSE remove(opened, msg.uri)
    /\ UNCHANGED <<msg, closed, built>>
    /\ ServerOnly

did_close ==
    /\ Handling("did_close")
    /\ store' = lock_store(store, did_close_store(store, msg.uri))
    /\ resp' = Notified("did_close",
                        IF lock_failed THEN "lock_failed"
                        ELSE IF contains_key(store, msg.uri) THEN ""
                        ELSE "unknown_file")
    /\ opened' = IF lock_failed THEN opened ELSE remove(opened, msg.uri)
    /\ closed' = IF lock_failed THEN closed ELSE closed \cup {msg.uri}
    /\ UNCHANGED <<msg, built>>
    /\ ServerOnly

\* The reply shared by the handlers that parse_and_analyze the stored text.
analyzed(op) ==
    IF lock_failed
    THEN Resp(op, lock_error.kind, lock_error.code, "lock_failed")
    ELSE IF ~contains_key(store, msg.uri)
    THEN Resp(op, file_not_opened.kind, file_not_opened.code, "not_opened")
    ELSE IF msg.external = "fail"
         THEN Resp(op, "null", "", "analysis_failed")
         ELSE Resp(op, "ok", "", "")

\* Whether signature_help goes to the function catalog for the node.
catalog_used(node) == node \in {"call_member", "call_ident"}

\* get_stdlib_functions walks the prelude and the imports anew at each call.
get_stdlib_functions(n) == IF n < 2 THEN n + 1 ELSE n

\* A bug to tell from signatures_at: the catalog is asked for any node.
signatures_at_any(node, sigs) == sigs

\* The number of signatures signature_help collects.
signatures_at(node, sigs) == IF catalog_used(node) THEN sigs ELSE 0

SignatureHelp(n) ==
    [of |-> "SignatureHelp", signatures |-> n,
     active_signature |-> "None", active_parameter |-> "None"]

signature_help ==
    /\ Handling("signature_help")
    /\ resp' = IF analyzed("signature_help").kind = "ok"
               THEN Valued(analyzed("signature_help"),
                           SignatureHelp(signatures_at(msg.node, msg.sigs)))
               ELSE analyzed("signature_help")
    /\ built' = IF analyzed("signature_help").kind = "ok" /\ catalog_used(msg.node)
                THEN get_stdlib_functions(built)
                ELSE built
    /\ UNCHANGED <<store, msg, opened, closed>>
    /\ ServerOnly

folding_range ==
    /\ Handling("folding_range")
    /\ resp' = analyzed("folding_range")
    /\ UNCHANGED <<store, msg, opened, closed, built>>
    /\ ServerOnly

document_symbol ==
    /\ Handling("document_symbol")
    /\ resp' = analyzed("document_symbol")
    /\ UNCHANGED <<store, msg, opened, closed, built>>
    /\ ServerOnly

goto_definition ==
    /\ Handling("goto_definition")
    /\ resp' = analyzed("goto_definition")
    /\ UNCHANGED <<store, msg, opened, closed, built>>
    /\ ServerOnly

rename ==
    /\ Handling("rename")
    /\ resp' = analyzed("rename")
    /\ UNCHANGED <<store, msg, opened, closed, built>>
    /\ ServerOnly

references ==
    /\ Handling("references")
    /\ resp' = analyzed("references")
    /\ UNCHANGED <<store, msg, opened, closed, built>>
    /\ ServerOnly

\* A bug to tell from formatting_end: the end is the position of the last
\* character, not the one after it.
formatting_end_at_last(text) ==
    IF text = <<>> THEN Pos(0, 0)
    ELSE LET end == LineColLookup_get(text, Len(text) - 1)
         IN  Pos(end[1] - 1, end[2] - 1)

\* The end of the edit: lookup.get(contents.len()), made 0-based.
formatting_end(text) ==
    LET end == LineColLookup_get(text, Len(text))
    IN  Pos(end[1] - 1, end[2] - 1)

\* vec![edit]: the one edit, from (0,0) to end, with the formatter's text.
TextEdits(end) ==
    [of |-> "TextEdits",
     edits |-> <<[range |-> Rng(Pos(0, 0), end), new_text |-> "formatted"]>>]

formatting ==
    /\ Handling("formatting")
    /\ resp' = IF lock_failed
               THEN Resp("formatting", lock_error.kind, lock_error.code,
                         "lock_failed")
               ELSE IF ~contains_key(store, msg.uri)
               THEN Resp("formatting", file_not_opened.kind, file_not_opened.code,
                         "not_opened")
               ELSE IF msg.external = "fail"
                    THEN Resp("formatting", "error", "InternalError", "format_failed")
                    ELSE Valued(Resp("formatting", "ok", "", ""),
                                TextEdits(formatting_end(get(store, msg.uri))))
    /\ UNCHANGED <<store, msg, opened, closed, built>>
    /\ ServerOnly

hover ==
    /\ Handling("hover")
    /\ resp' = Resp("hover", "null", "", "")
    /\ UNCHANGED <<store, msg, opened, closed, built>>
    /\ ServerOnly

completion_resolve ==
    /\ Handling("completion_resolve")
    /\ resp' = Resp("completion_resolve", "ok", "", "")
    /\ UNCHANGED <<store, msg, opened, closed, built>>
    /\ ServerOnly

\* The results the finders of the completion module can hand back: a list,
\* or, when the text cannot be analyzed, possibly an error.
find_completions(analysis) ==
    IF analysis = "fail" THEN {"Ok", "Err"} ELSE {"Ok"}

\* The dispatch on the trigger: ":" is answered with an empty list before any
\* analysis; every other trigger goes to a finder.
completion_items(trigger, analysis) ==
    IF trigger = ":" THEN {"Ok"} ELSE find_completions(analysis)

completion ==
    /\ Handling("completion")
    /\ IF lock_failed
       THEN resp' = Resp("completion", lock_error.kind, lock_error.code,
                         "lock_failed")
       ELSE IF ~contains_key(store, msg.uri)
       THEN resp' = Resp("completion", file_not_opened.kind, file_not_opened.code,
                         "not_opened")
       ELSE \E items \in completion_items(msg.trigger, msg.external) :
                resp' = IF items = "Err"
                        THEN Resp("completion", "error", "InvalidParams",
                                  "items_error")
                        ELSE Resp("completion", "ok", "", "")
    /\ UNCHANGED <<store, msg, opened, closed, built>>
    /\ ServerOnly

----------------------------------------------------------------------------

InitMain ==
    /\ store = {}
    /\ msg = NoMessage
    /\ resp = NoResp
    /\ opened = {}
    /\ closed = {}
    /\ built = 0

NoCall == [fn |-> "none"]
NoRet == [fn |-> "none"]

InitCallIdle ==
    /\ call = NoCall
    /\ ret = NoRet

InitRangeIdle ==
    /\ rin = [contents |-> <<>>, range |-> ZeroRange, new |-> <<>>]
    /\ rout = <<>>
    /\ rdone = FALSE

InitTasksIdle ==
    /\ pc = [t \in Tasks |-> "idle"]
    /\ req = [t \in Tasks |-> NoMessage]
    /\ lock = NoTask
    /\ contents = [t \in Tasks |-> <<>>]
    /\ idx = [t \in Tasks |-> 0]
    /\ pre = [t \in Tasks |-> <<>>]
    /\ snap = [t \in Tasks |-> <<>>]
    /\ over = [t \in Tasks |-> {}]
    /\ borrow = NoTask

Init == InitMain /\ InitCallIdle /\ InitRangeIdle /\ InitTasksIdle

Next ==
    \/ Receive
    \/ Reply
    \/ did_open
    \/ did_change
    \/ did_save
    \/ did_close
    \/ signature_help
    \/ formatting
    \/ folding_range
    \/ document_symbol
    \/ goto_definition
    \/ rename
    \/ references
    \/ hover
    \/ completion_resolve
    \/ completion

Spec == Init /\ [][Next]_vars

\* The server once a handler has panicked while it held the guard of the store
\* (String::replace_range off a char boundary in did_change, say): the mutex
\* stays poisoned, with the store as the panic left it.
InitPoisoned ==
    /\ store \in {{}, {<<"u1", <<"a", NL, "b">>>>}}
    /\ msg = NoMessage
    /\ resp = NoResp
    /\ opened = {}
    /\ closed = {}
    /\ built = 0
    /\ InitCallIdle
    /\ InitRangeIdle
    /\ pc = [t \in Tasks |-> "idle"]
    /\ req = [t \in Tasks |-> NoMessage]
    /\ lock = Poisoned
    /\ contents = [t \in Tasks |-> <<>>]
    /\ idx = [t \in Tasks |-> 0]
    /\ pre = [t \in Tasks |-> <<>>]
    /\ snap = [t \in Tasks |-> <<>>]
    /\ over = [t \in Tasks |-> {}]
    /\ borrow = NoTask

SpecPoisoned == InitPoisoned /\ [][Next]_vars

----------------------------------------------------------------------------
(* replace_string_in_range on its own: one call on arbitrary arguments *)

NewTexts == {<<>>, <<"x">>, <<"x", NL, "y">>}

InitRange ==
    /\ rin \in [contents : TextsUpTo(MaxLen), range : Ranges, new : NewTexts]
    /\ rout = <<>>
    /\ rdone = FALSE

ApplyRange ==
    /\ ~rdone
    /\ rout' = replace_string_in_range(rin.contents, rin.range, rin.new)
    /\ rdone' = TRUE
    /\ UNCHANGED rin
    /\ UNCHANGED <<mainVars, callVars, taskVars>>

NextRange == ApplyRange

InitRangeCall == InitMain /\ InitCallIdle /\ InitRange /\ InitTasksIdle

SpecRange == InitRangeCall /\ [][NextRange]_vars

----------------------------------------------------------------------------
(* Functions examined on their own: one call, its arguments drawn at the start *)

Returned(fn, value) == [fn |-> fn, value |-> value]

\* A call leaves the server, the range call and the tasks alone.
CallOnly == UNCHANGED <<call, mainVars, rin, rout, rdone, taskVars>>

\* The symbols SymbolsVisitor collects: a name and the start of its location.
MaxSymbols == 3
SymbolStarts == {Pos(0, 0), Pos(0, 1), Pos(1, 0)}
Symbols == {[name |-> n, start |-> p] : n \in {"x", "y"}, p \in SymbolStarts}
SymbolLists == UNION {[1..k -> Symbols] : k \in 0..MaxSymbols}

\* A bug to tell from symbol_cmp: the lines are not compared.
symbol_cmp_character(a, b) ==
    IF a.start.character < b.start.character THEN "Less"
    ELSE IF a.start.character > b.start.character THEN "Greater"
    ELSE "Equal"

\* The closure given to symbols.sort_by.
symbol_cmp(a, b) ==
    IF a.start.line = b.start.line
    THEN IF a.start.character < b.start.character THEN "Less"
         ELSE IF a.start.character > b.start.character THEN "Greater"
         ELSE "Equal"
    ELSE IF a.start.line < b.start.line THEN "Less" ELSE "Greater"

\* x put into the sorted list after every element that is not greater.
RECURSIVE sort_insert(_, _)
sort_insert(sorted, x) ==
    IF sorted = <<>> THEN <<x>>
    ELSE IF symbol_cmp(x, Head(sorted)) = "Less" THEN <<x>> \o sorted
    ELSE <<Head(sorted)>> \o sort_insert(Tail(sorted), x)

\* slice::sort_by: a stable sort.
RECURSIVE sort_by(_)
sort_by(list) ==
    IF list = <<>> THEN <<>>
    ELSE sort_insert(sort_by(SubSeq(list, 1, Len(list) - 1)), list[Len(list)])

\* document_symbol from the visitor's symbols on.
document_symbol_sort ==
    /\ call.fn = "document_symbol"
    /\ ret = NoRet
    /\ ret' = Returned("document_symbol", sort_by(call.symbols))
    /\ CallOnly

SymbolCalls(fn) == {[fn |-> fn, symbols |-> l] : l \in SymbolLists}

\* What find_node hands to find_references: the node at the position and the
\* path to it from the package.  Of a node of the path the model keeps its
\* kind, the names of its parameters (a function expression), the names
\* DefinitionFinderVisitor finds a definition of in it, and per name the
\* ranges of the identifiers IdentFinderVisitor collects in it.
MaxPath == 3
Names == {"a", "b"}
R1 == Rng(Pos(0, 0), Pos(0, 1))
R2 == Rng(Pos(1, 4), Pos(1, 5))
R3 == Rng(Pos(2, 2), Pos(2, 3))
R4 == Rng(Pos(2, 6), Pos(2, 7))

PathNode(kind, params, definitions, a, b) ==
    [kind |-> kind, params |-> params, definitions |-> definitions,
     identifiers |-> [n \in Names |-> IF n = "a" THEN a ELSE b]]

PathNodes ==
    { PathNode("Package", {}, {"a"}, <<R1, R2, R3>>, <<R4>>),
      PathNode("File", {}, {}, <<R1, R2, R3>>, <<R4>>),
      PathNode("File", {}, {"a", "b"}, <<R1, R2, R3>>, <<R4>>),
      PathNode("FunctionExpr", {"a"}, {}, <<R2, R3>>, <<>>),
      PathNode("FunctionExpr", {"b"}, {"a"}, <<R3>>, <<R4>>),
      PathNode("CallExpr", {}, {"a"}, <<R3>>, <<>>) }

Paths == UNION {[1..k -> PathNodes] : k \in 0..MaxPath}

None == [kind |-> "None", name |-> ""]

FoundNodes ==
    {None} \cup {[kind |-> k, name |-> n] :
                    k \in {"Identifier", "IdentifierExpr", "CallExpr"}, n \in Names}

NodeFinderResult(node, path) == [node |-> node, path |-> path]

function_defines(name, params) == name \in params

is_scope(name, n) == name \in n.definitions

node_to_location(range, uri) == [uri |-> uri, range |-> range]

\* A bug to tell from find_references: the path is searched from the package
\* inwards.
find_references_outermost(uri, result) ==
    IF result.node.kind \notin {"Identifier", "IdentifierExpr"} THEN <<>>
    ELSE LET name == result.node.name
             scopes == {i \in 1..Len(result.path) :
                           \/ /\ result.path[i].kind = "FunctionExpr"
                              /\ function_defines(name, result.path[i].params)
                           \/ /\ result.path[i].kind \in {"Package", "File"}
                              /\ is_scope(name, result.path[i])}
         IN  IF scopes = {} THEN <<>>
             ELSE LET first == CHOOSE i \in scopes : \A j \in scopes : i <= j
                      identifiers == result.path[first].identifiers[name]
                  IN  [i \in 1..Len(identifiers) |->
                          node_to_location(identifiers[i], uri)]

\* The last node of the path that is a function expression with a parameter
\* of the name, or a package or file that holds a definition of the name.
find_references(uri, result) ==
    IF result.node.kind \notin {"Identifier", "IdentifierExpr"} THEN <<>>
    ELSE LET name == result.node.name
             scopes == {i \in 1..Len(result.path) :
                           \/ /\ result.path[i].kind = "FunctionExpr"
                              /\ function_defines(name, result.path[i].params)
                           \/ /\ result.path[i].kind \in {"Package", "File"}
                              /\ is_scope(name, result.path[i])}
         IN  IF scopes = {} THEN <<>>
             ELSE LET identifiers == result.path[SetMax(scopes)].identifiers[name]
                  IN  [i \in 1..Len(identifiers) |->
                          node_to_location(identifiers[i], uri)]

\* A bug to tell from rename_edits: the occurrence renamed first is left out.
rename_edits_but_first(locations, new_name) ==
    [i \in 1..(Len(locations) - 1) |->
        [range |-> locations[i + 1].range, new_text |-> new_name]]

\* rename: one edit per location, with the new name.
rename_edits(locations, new_name) ==
    [i \in 1..Len(locations) |->
        [range |-> locations[i].range, new_text |-> new_name]]

WorkspaceEdit(key, edits) == [of |-> "WorkspaceEdit", changes |-> {<<key, edits>>}]

RenameCalls(fn) ==
    {[fn |-> fn, uri |-> "u1",
      result |-> NodeFinderResult(n, p), new_name |-> "c"] :
         n \in FoundNodes, p \in Paths}

\* Strings the completables are matched against, as sequences of characters.
MaxText == 3
MaxImports == 2
TextChars == {"c", "C", "s", "."}
Texts == UNION {[1..k -> TextChars] : k \in 0..MaxText}

Some(x) == [some |-> TRUE, value |-> x]
NoneString == [some |-> FALSE, value |-> <<>>]

ends_with(text, c) == text # <<>> /\ text[Len(text)] = c

char_to_lowercase(c) == IF c = "C" THEN "c" ELSE c

to_lowercase(text) == [i \in 1..Len(text) |-> char_to_lowercase(text[i])]

starts_with(text, prefix) ==
    Len(prefix) <= Len(text) /\ SubSeq(text, 1, Len(prefix)) = prefix

\* contains(l, m): some element of l is m.
contains(l, m) == \E i \in 1..Len(l) : l[i] = m

\* The catalog: a package and what get_imports walks out of it, and what
\* get_builtins makes of the prelude.
PackagePaths == {"x/cs", "y/Cs"}

get_package_name(path) == IF path = "x/cs" THEN <<"c", "s">> ELSE <<"C", "s">>

PackageResult(path) ==
    [kind |-> "Package", name |-> get_package_name(path), full_name |-> path]

VarResult(package) ==
    [kind |-> "Var", package |-> package,
     package_name |-> IF package = "builtin" THEN NoneString
                      ELSE Some(get_package_name(package))]

FunctionResult(package, required_args, optional_args) ==
    [kind |-> "Function", name |-> "fn", package |-> package,
     package_name |-> IF package = "builtin" THEN NoneString
                      ELSE Some(get_package_name(package)),
     required_args |-> required_args, optional_args |-> optional_args]

Completables ==
    {PackageResult(p) : p \in PackagePaths}
        \cup {VarResult(p) : p \in PackagePaths \cup {"builtin"}}
        \cup {FunctionResult(p, <<>>, <<>>) : p \in PackagePaths \cup {"builtin"}}

ImportLists ==
    UNION {[1..k -> PackagePaths \cup {"builtin"}] : k \in 0..MaxImports}

\* A bug to tell from PackageResult_matches: the prefix is compared as typed.
PackageResult_matches_case(self, text, imports) ==
    IF ~contains(imports, self.full_name) THEN FALSE
    ELSE IF ~ends_with(text, ".") THEN starts_with(self.name, text)
    ELSE FALSE

PackageResult_matches(self, text, imports) ==
    IF ~contains(imports, self.full_name) THEN FALSE
    ELSE IF ~ends_with(text, ".")
         THEN starts_with(to_lowercase(self.name), to_lowercase(text))
    ELSE FALSE

\* A bug to tell from VarResult_matches: the import list is not consulted.
VarResult_matches_unimported(self, text, imports) ==
    IF self.package = "builtin" /\ ~ends_with(text, ".") THEN TRUE
    ELSE IF ends_with(text, ".")
         THEN Some(SubSeq(text, 1, Len(text) - 1)) = self.package_name
    ELSE FALSE

VarResult_matches(self, text, imports) ==
    IF self.package = "builtin" /\ ~ends_with(text, ".") THEN TRUE
    ELSE IF ~contains(imports, self.package) THEN FALSE
    ELSE IF ends_with(text, ".")
         THEN Some(SubSeq(text, 1, Len(text) - 1)) = self.package_name
    ELSE FALSE

FunctionResult_matches(self, text, imports) ==
    IF self.package = "builtin" /\ ~ends_with(text, ".") THEN TRUE
    ELSE IF ~contains(imports, self.package) THEN FALSE
    ELSE IF ends_with(text, ".")
         THEN Some(SubSeq(text, 1, Len(text) - 1)) = self.package_name
    ELSE FALSE

\* Completable::matches, by the variant of self.
matches(self, text, imports) ==
    IF self.kind = "Package" THEN PackageResult_matches(self, text, imports)
    ELSE IF self.kind = "Var" THEN VarResult_matches(self, text, imports)
    ELSE FunctionResult_matches(self, text, imports)

MatchCalls(fn) ==
    {[fn |-> fn, self |-> c, text |-> t, imports |-> l] :
         c \in Completables, t \in Texts, l \in ImportLists}

matches_called ==
    /\ call.fn = "matches"
    /\ ret = NoRet
    /\ ret' = Returned("matches", matches(call.self, call.text, call.imports))
    /\ CallOnly

\* Insert texts are built of pieces: a text is the sequence of the pieces
\* format! and += put one after the other.
MaxArgs == 2
ArgNames == {"a", "b", "bucket"}
ArgLists == UNION {[1..k -> ArgNames] : k \in 0..MaxArgs}

\* What ctx.callbacks.get_buckets() answers.
BucketResults ==
    { [ok |-> FALSE, buckets |-> <<>>],
      [ok |-> TRUE, buckets |-> <<>>],
      [ok |-> TRUE, buckets |-> <<"k1", "k2">>] }

\* A number as format! writes it.
to_string(n) == <<"0", "1", "2", "3", "4", "5", "6", "7", "8", "9">>[n + 1]

\* buckets.join(",")
RECURSIVE join(_, _)
join(list, sep) ==
    IF list = <<>> THEN <<>>
    ELSE IF Len(list) = 1 THEN <<list[1]>>
    ELSE <<list[1], sep>> \o join(Tail(list), sep)

\* A bug to tell from default_arg_insert_text: the tab stop is the index.
default_arg_insert_text_zero_based(arg, index) == <<arg, ": $", to_string(index)>>

\* format!("{}: ${}", arg, index + 1)
default_arg_insert_text(arg, index) == <<arg, ": $", to_string(index + 1)>>

get_bucket_insert_text(arg, index, buckets) ==
    IF buckets.ok
    THEN IF buckets.buckets # <<>>
         THEN <<arg, ": $">>
                  \o (<<"${", to_string(index + 1), "|">>
                          \o join(buckets.buckets, ",") \o <<"|}">>)
         ELSE default_arg_insert_text(arg, index)
    ELSE default_arg_insert_text(arg, index)

arg_insert_text(arg, index, buckets) ==
    IF arg = "bucket" THEN get_bucket_insert_text(arg, index, buckets)
    ELSE default_arg_insert_text(arg, index)

\* The loop of insert_text over the required arguments, from index on.
RECURSIVE insert_required(_, _, _)
insert_required(required_args, index, buckets) ==
    IF index >= Len(required_args) THEN <<>>
    ELSE arg_insert_text(required_args[index + 1], index, buckets)
             \o (IF index # Len(required_args) - 1 THEN <<", ">> ELSE <<>>)
             \o insert_required(required_args, index + 1, buckets)

\* FunctionResult::insert_text
insert_text(self, buckets) ==
    <<self.name, "(">>
        \o insert_required(self.required_args, 0, buckets)
        \o (IF self.required_args = <<>> /\ self.optional_args # <<>>
            THEN <<"$1">> ELSE <<>>)
        \o <<")$0">>

InsertTextCalls(fn) ==
    {[fn |-> fn,
      self |-> FunctionResult("builtin", r, o), buckets |-> b] :
         r \in ArgLists, o \in {<<>>, <<"o">>}, b \in BucketResults}

insert_text_called ==
    /\ call.fn = "insert_text"
    /\ ret = NoRet
    /\ ret' = Returned("insert_text", insert_text(call.self, call.buckets))
    /\ CallOnly

\* The catalog get_stdlib builds for a request: what get_imports walks out of
\* the packages, in the order the environment yields them, and then what
\* get_builtins makes of the prelude, in the order it yields its values.
get_stdlib(packages, builtins) ==
    [i \in 1..(3 * Len(packages)) |->
        LET p == packages[((i - 1) \div 3) + 1]
        IN  IF (i - 1) % 3 = 0 THEN PackageResult(p)
            ELSE IF (i - 1) % 3 = 1 THEN VarResult(p)
            ELSE FunctionResult(p, <<"a">>, <<>>)]
        \o [i \in 1..Len(builtins) |->
               IF builtins[i] = "Var" THEN VarResult("builtin")
               ELSE FunctionResult("builtin", <<"bucket">>, <<>>)]

Catalogs ==
    {get_stdlib(p, b) :
        p \in {<<"x/cs", "y/Cs">>, <<"y/Cs", "x/cs">>},
        b \in {<<"Var", "Function">>, <<"Function", "Var">>}}

\* Completable::completion_item; origin tells the items of the catalog from
\* those of the document.
completion_item(origin, self, buckets) ==
    [origin |-> origin, kind |-> self.kind,
     package |-> IF self.kind = "Package" THEN self.full_name ELSE self.package,
     insert_text |-> IF self.kind = "Function" THEN insert_text(self, buckets)
                     ELSE <<"name">>]

RECURSIVE get_stdlib_completions(_, _, _, _)
\* A bug to tell from get_stdlib_completions: the walk ends at the first match.
get_stdlib_completions_first(name, imports, completes, buckets) ==
    IF completes = <<>> THEN <<>>
    ELSE IF matches(Head(completes), name, imports)
         THEN <<completion_item("stdlib", Head(completes), buckets)>>
         ELSE get_stdlib_completions(name, imports, Tail(completes), buckets)

get_stdlib_completions(name, imports, completes, buckets) ==
    IF completes = <<>> THEN <<>>
    ELSE (IF matches(Head(completes), name, imports)
          THEN <<completion_item("stdlib", Head(completes), buckets)>>
          ELSE <<>>)
             \o get_stdlib_completions(name, imports, Tail(completes), buckets)

\* The completables of the document, each with what its matches answers for
\* the name and imports of the request.
UserCompletable(package, matching) ==
    [kind |-> "Var", package |-> package, matching |-> matching]

RECURSIVE get_user_matches(_, _)
get_user_matches(completables, buckets) ==
    IF completables = <<>> THEN <<>>
    ELSE (IF Head(completables).matching
          THEN <<completion_item("user", Head(completables), buckets)>>
          ELSE <<>>)
             \o get_user_matches(Tail(completables), buckets)

Ok(value) == [ok |-> TRUE, value |-> value]
Err == [ok |-> FALSE, value |-> <<>>]

\* find_completions of the completion handler, on a catalog built for it.
find_completions_of(c, completes) ==
    IF ~c.name.ok \/ ~c.imports.ok THEN Err
    ELSE IF c.name.value.some
         THEN IF ~c.user.ok THEN Err
              ELSE Ok(get_stdlib_completions(c.name.value.value, c.imports.value,
                                             completes, c.buckets)
                          \o get_user_matches(c.user.value, c.buckets))
         ELSE Ok(<<>>)

CompletionCalls(fn) ==
    {[fn |-> fn, name |-> n, imports |-> i, user |-> u,
      buckets |-> b] :
         n \in {Err, Ok(NoneString), Ok(Some(<<>>)), Ok(Some(<<"c">>)),
                Ok(Some(<<"c", "s", ".">>))},
         i \in {Err} \cup {Ok(l) : l \in ImportLists},
         u \in {Err, Ok(<<>>),
                Ok(<<UserCompletable("self", TRUE), UserCompletable("self", FALSE)>>)},
         b \in BucketResults}

\* One completion request: the catalog is built anew and walked.
find_completions_called ==
    /\ call.fn = "find_completions"
    /\ ret = NoRet \/ (ret.fn = "find_completions" /\ Len(ret.value) < 2)
    /\ \E completes \in Catalogs :
           ret' = Returned("find_completions",
                           (IF ret = NoRet THEN <<>> ELSE ret.value)
                               \o <<find_completions_of(call, completes)>>)
    /\ CallOnly

\* The two answers, and which of them have been given.
Both(done, references_value, rename_value) ==
    [fn |-> "rename_references", done |-> done,
     references |-> references_value, rename |-> rename_value]

NotYet == Both({}, <<>>, NoValue)

\* references from the node found on.
references_found ==
    /\ call.fn = "rename_references"
    /\ ret = NoRet \/ (ret.fn = "rename_references" /\ "references" \notin ret.done)
    /\ LET had == IF ret = NoRet THEN NotYet ELSE ret
       IN  ret' = Both(had.done \cup {"references"},
                       find_references(call.uri, call.result),
                       had.rename)
    /\ CallOnly

\* rename from the node found on.
rename_found ==
    /\ call.fn = "rename_references"
    /\ ret = NoRet \/ (ret.fn = "rename_references" /\ "rename" \notin ret.done)
    /\ LET had == IF ret = NoRet THEN NotYet ELSE ret
       IN  ret' = Both(had.done \cup {"rename"},
                       had.references,
                       WorkspaceEdit(call.uri,
                                     rename_edits(find_references(call.uri,
                                                                  call.result),
                                                  call.new_name)))
    /\ CallOnly

\* What find_node hands to goto_definition: the node at the position with its
\* own range, and the path to it.  The key of a parameter is the first
\* identifier of its name in the function expression; the definition
\* DefinitionFinderVisitor finds in a node is the statement that begins at the
\* first identifier of the name in it and runs to the head of the next line.

param_key_range(n, name) == n.identifiers[name][1]

definition_range(n, name) ==
    Rng(n.identifiers[name][1].start,
        Pos(n.identifiers[name][1].start.line + 1, 0))

\* The nodes of the path, innermost first, at which goto_definition returns.
goto_definition_stops(name, path) ==
    {i \in 1..Len(path) :
        /\ path[i].kind \in {"FunctionExpr", "Package", "File"}
        /\ \/ /\ path[i].kind = "FunctionExpr"
              /\ function_defines(name, path[i].params)
           \/ is_scope(name, path[i])}

Location(value) == [of |-> "Location", location |-> value]
Null == [of |-> "null"]

\* goto_definition from the node found on: at a parameter of a function of
\* the path the location is made of `node`, the node at the position.
goto_definition_of(uri, result, at) ==
    IF result.node.kind \notin {"Identifier", "IdentifierExpr"} THEN Null
    ELSE LET name == result.node.name
             stops == goto_definition_stops(name, result.path)
         IN  IF stops = {} THEN Null
             ELSE LET n == result.path[SetMax(stops)]
                  IN  IF /\ n.kind = "FunctionExpr"
                         /\ function_defines(name, n.params)
                      THEN Location(node_to_location(at, uri))
                      ELSE Location(node_to_location(definition_range(n, name),
                                                     uri))

\* The ranges the node at the position can have: an identifier stands among
\* the identifiers of its name in the innermost node of the path.
RangesAt(node, path) ==
    IF node.kind \in {"Identifier", "IdentifierExpr"} /\ path # <<>>
    THEN {path[Len(path)].identifiers[node.name][i] :
             i \in 1..Len(path[Len(path)].identifiers[node.name])}
    ELSE {R1}

GotoCalls(fn) ==
    {[fn |-> fn, uri |-> "u1",
      result |-> NodeFinderResult(c[1], c[2]), at |-> c[3]] :
         c \in {x \in FoundNodes \X Paths \X {R1, R2, R3, R4} :
                   x[3] \in RangesAt(x[1], x[2])}}

goto_definition_found ==
    /\ call.fn = "goto_definition"
    /\ ret = NoRet
    /\ ret' = Returned("goto_definition",
                       goto_definition_of(call.uri, call.result, call.at))
    /\ CallOnly

\* The context of a completion request: absent, or a trigger kind with the
\* trigger character, if any.
NoneChar == [some |-> FALSE, value |-> ""]

NoContext == [some |-> FALSE, trigger_kind |-> "", trigger_character |-> NoneChar]

Context(kind, character) ==
    [some |-> TRUE, trigger_kind |-> kind, trigger_character |-> character]

Invoked == Context("Invoked", NoneChar)

Contexts ==
    {NoContext, Invoked, Context("TriggerCharacter", NoneChar),
     Context("TriggerForIncompleteCompletions", Some(":"))}
        \cup {Context("TriggerCharacter", Some(c)) :
                 c \in {".", ":", "(", ",", "\"", "x"}}

\* A bug to tell from completion_dispatch: '"' is taken for '.'.
completion_dispatch_quote(context) ==
    IF context.some /\ context.trigger_kind = "TriggerCharacter"
       /\ context.trigger_character.some
    THEN IF context.trigger_character.value \in {".", "\""}
         THEN "find_dot_completions"
         ELSE IF context.trigger_character.value = ":" THEN "empty"
         ELSE IF context.trigger_character.value \in {"(", ","}
         THEN "find_param_completions"
         ELSE "find_completions"
    ELSE "find_completions"

\* LspServer::completion: the match on (trigger_kind, trigger_character).
completion_dispatch(context) ==
    IF context.some /\ context.trigger_kind = "TriggerCharacter"
       /\ context.trigger_character.some
    THEN IF context.trigger_character.value = "." THEN "find_dot_completions"
         ELSE IF context.trigger_character.value = ":" THEN "empty"
         ELSE IF context.trigger_character.value \in {"(", ","}
         THEN "find_param_completions"
         ELSE "find_completions"
    ELSE "find_completions"

\* all_completions of the completion handler behind the router.
all_completions_dispatch(context) ==
    IF context.some /\ context.trigger_character = Some(":")
    THEN "find_arg_completions"
    ELSE "find_completions"

new_arg_completion(value) ==
    [label |-> value, kind |-> "Text", insert_text_format |-> "PlainText"]

find_arg_completions(c) ==
    IF ~c.name.ok THEN Err
    ELSE IF c.name.value = Some(<<"bucket">>)
         THEN IF ~c.buckets.ok THEN Err
              ELSE Ok([i \in 1..Len(c.buckets.buckets) |->
                          new_arg_completion(c.buckets.buckets[i])])
         ELSE Ok(<<>>)

\* What the finder the request is dispatched to can answer.  The finders for
\* '.' and for '(' and ',' either fail or answer a list, left empty here.
finder_answers(finder, c, completes) ==
    IF finder = "empty" THEN {Ok(<<>>)}
    ELSE IF finder = "find_arg_completions" THEN {find_arg_completions(c)}
    ELSE IF finder = "find_completions" THEN {find_completions_of(c, completes)}
    ELSE {Err, Ok(<<>>)}

Answer(finder, result) == [finder |-> finder, result |-> result]

\* The completion requests: through LspServer or through the router, with a
\* context, and what the analysis of the document and the host answer.
DispatchCalls(fn) ==
    {[fn |-> fn, server |-> s, context |-> x, name |-> n,
      imports |-> i, user |-> u, buckets |-> b] :
         s \in {"LspServer", "Router"},
         x \in Contexts,
         n \in {Err, Ok(NoneString), Ok(Some(<<"c">>)), Ok(Some(<<"bucket">>))},
         i \in {Err, Ok(<<"x/cs">>)},
         u \in {Err, Ok(<<UserCompletable("self", TRUE)>>)},
         b \in BucketResults}

\* The request of the call, and after it the same request with the context
\* of an invoked completion.
completion_dispatched ==
    /\ call.fn = "completion"
    /\ ret = NoRet \/ (ret.fn = "completion" /\ Len(ret.value) < 2)
    /\ LET context == IF ret = NoRet THEN call.context ELSE Invoked
           finder == IF call.server = "LspServer"
                     THEN completion_dispatch(context)
                     ELSE all_completions_dispatch(context)
       IN  \E completes \in Catalogs :
               \E result \in finder_answers(finder, call, completes) :
                   ret' = Returned("completion",
                                   (IF ret = NoRet THEN <<>> ELSE ret.value)
                                       \o <<Answer(finder, result)>>)
    /\ CallOnly

\* The calls examined, each set under the name of its function.
InitCalls ==
    /\ InitMain
    /\ \/ call \in SymbolCalls("document_symbol")
       \/ call \in RenameCalls("rename_references")
       \/ call \in MatchCalls("matches")
       \/ call \in InsertTextCalls("insert_text")
       \/ call \in CompletionCalls("find_completions")
       \/ call \in GotoCalls("goto_definition")
       \/ call \in DispatchCalls("completion")
    /\ ret = NoRet
    /\ InitRangeIdle
    /\ InitTasksIdle

NextCalls ==
    \/ document_symbol_sort
    \/ references_found
    \/ rename_found
    \/ matches_called
    \/ insert_text_called
    \/ find_completions_called
    \/ goto_definition_found
    \/ completion_dispatched

SpecCalls == InitCalls /\ [][NextCalls]_vars

----------------------------------------------------------------------------
(* Positions of a text, counted from the text itself *)

\* 0-based line and character of the byte at 0-based offset i.
LineOf(text, i) == Cardinality({j \in 1..i : text[j] = NL})
CharacterOf(text, i) ==
    LET breaks == {j \in 1..i : text[j] = NL}
    IN  IF breaks = {} THEN i ELSE i - SetMax(breaks)

\* The offsets of the bytes of text that stand at position pos (at most one).
OffsetsAt(text, pos) ==
    {i \in 0..(Len(text) - 1) :
        LineOf(text, i) = pos.line /\ CharacterOf(text, i) = pos.character}

Occurs(text, pos) == OffsetsAt(text, pos) # {}
OffsetAt(text, pos) == CHOOSE i \in OffsetsAt(text, pos) : TRUE

\* text with the bytes at offsets a..b (both included) replaced by new.
Substituted(text, a, b, new) ==
    [k \in 1..(a + Len(new) + (Len(text) - b - 1)) |->
        IF k <= a THEN text[k]
        ELSE IF k <= a + Len(new) THEN new[k - a]
        ELSE text[k - Len(new) + (b - a + 1)]]

\* C4: a range whose two positions occur in the text, the start not after the
\* end, is replaced from the start character up to and including the end
\* character; every other character stays, in order.
C4_RangeSubstituted ==
    (/\ rdone
     /\ Occurs(rin.contents, rin.range.start)
     /\ Occurs(rin.contents, rin.range.end)
     /\ OffsetAt(rin.contents, rin.range.start) <= OffsetAt(rin.contents, rin.range.end))
        => rout = Substituted(rin.contents,
                              OffsetAt(rin.contents, rin.range.start),
                              OffsetAt(rin.contents, rin.range.end),
                              rin.new)

C4_Witness ==
    /\ rdone
    /\ Occurs(rin.contents, rin.range.start)
    /\ Occurs(rin.contents, rin.range.end)
    /\ rin.range.start.line < rin.range.end.line
    /\ 0 < OffsetAt(rin.contents, rin.range.start)
    /\ rin.new # <<>>
    /\ rout # rin.contents

----------------------------------------------------------------------------
(* Handlers running as concurrent tasks that share the store behind its mutex *)

TaskChanges ==
    { RangeChange(Rng(Pos(0, 1), Pos(1, 0)), <<>>),
      RangeChange(Rng(Pos(0, 0), Pos(0, 0)), <<"a">>),
      FullChange(<<"b">>) }

TaskChangeLists == UNION {[1..k -> TaskChanges] : k \in 0..MaxEvents}

\* Only "u1" is in the store of the tasks: on the other uri every did_change
\* is the same early return, and one content change stands for all lists.
TaskMessages ==
    {Message("did_change", "u1", FALSE, <<>>, c, "none", "ok") :
         c \in TaskChangeLists}
        \cup {Message("did_change", "u2", FALSE, <<>>, <<c>>, "none", "ok") :
                  c \in TaskChanges}
        \cup {Message("completion", u, FALSE, <<>>, <<>>, "Invoked", x) :
                  u \in URIs, x \in Outcomes}
        \cup {Message(op, u, FALSE, <<>>, <<>>, "none", x) :
                  op \in {"formatting", "references"}, u \in URIs, x \in Outcomes}

\* The did_change of task c as a query overlapping it records it.
Overlap(c) ==
    [pre |-> pre[c], post |-> apply_changes(pre[c], req[c].changes),
     changes |-> req[c].changes]

\* The queries on key that have asked for the lock and not got it yet.
Waiting(key) ==
    {q \in Tasks : pc[q] = "lock" /\ req[q].op = "completion" /\ req[q].uri = key}

\* The queries on key that have copied the text and are still running.
Reading(key) ==
    {q \in Tasks : pc[q] = "find" /\ req[q].op = "completion" /\ req[q].uri = key}

\* A step of a task leaves the single-message server and the range call alone.
TasksOnly == UNCHANGED <<msg, resp, closed, built, call, ret, rin, rout, rdone, borrow>>

\* A request of the set reaches the server and its handler starts as a task.
Spawn(t, messages) ==
    /\ pc[t] = "idle"
    /\ \E m \in messages : req' = [req EXCEPT ![t] = m]
    /\ pc' = [pc EXCEPT ![t] = "lock"]
    /\ UNCHANGED <<store, opened, lock, contents, idx, pre, snap, over>>
    /\ TasksOnly

Start(t) == Spawn(t, TaskMessages)

\* did_change: self.store.lock(), then store.get(&key).
did_change_lock(t) ==
    /\ pc[t] = "lock"
    /\ req[t].op = "did_change"
    /\ lock = NoTask
    /\ IF contains_key(store, req[t].uri)
       THEN /\ lock' = t
            /\ contents' = [contents EXCEPT ![t] = get(store, req[t].uri)]
            /\ pre' = [pre EXCEPT ![t] = get(store, req[t].uri)]
            /\ idx' = [idx EXCEPT ![t] = 0]
            /\ pc' = [pc EXCEPT ![t] = "apply"]
            /\ over' = [q \in Tasks |->
                          IF q \in Waiting(req[t].uri)
                             \/ (q \in Reading(req[t].uri) /\ over[q] = {})
                          THEN {[pre |-> get(store, req[t].uri),
                                 post |-> apply_changes(get(store, req[t].uri),
                                                        req[t].changes),
                                 changes |-> req[t].changes]}
                          ELSE over[q]]
       ELSE /\ pc' = [pc EXCEPT ![t] = "done"]
            /\ UNCHANGED <<lock, contents, pre, idx, over>>
    /\ UNCHANGED <<store, opened, req, snap>>
    /\ TasksOnly

\* A bug to tell from did_change_apply: every change is written to the store
\* and the lock is given up between two changes.
did_change_apply_in_place(t) ==
    /\ pc[t] = "apply"
    /\ lock \in {t, NoTask}
    /\ idx[t] < Len(req[t].changes)
    /\ contents' = [contents EXCEPT
                       ![t] = apply_change(get(store, req[t].uri),
                                           req[t].changes[idx[t] + 1])]
    /\ store' = insert(store, req[t].uri, contents'[t])
    /\ idx' = [idx EXCEPT ![t] = idx[t] + 1]
    /\ lock' = IF idx'[t] = Len(req[t].changes) THEN t ELSE NoTask
    /\ over' = [q \in Tasks |->
                   IF q \in Waiting(req[t].uri) THEN {Overlap(t)} ELSE over[q]]
    /\ UNCHANGED <<opened, pc, req, pre, snap>>
    /\ TasksOnly

\* did_change: one iteration of the loop over the content changes, on the
\* local `contents`, the guard being held.
did_change_apply(t) ==
    /\ pc[t] = "apply"
    /\ lock = t
    /\ idx[t] < Len(req[t].changes)
    /\ contents' = [contents EXCEPT
                       ![t] = apply_change(contents[t], req[t].changes[idx[t] + 1])]
    /\ idx' = [idx EXCEPT ![t] = idx[t] + 1]
    /\ over' = [q \in Tasks |->
                   IF q \in Waiting(req[t].uri) THEN {Overlap(t)} ELSE over[q]]
    /\ UNCHANGED <<store, opened, pc, req, lock, pre, snap>>
    /\ TasksOnly

\* did_change: store.insert(key, new_contents); the guard is dropped on return.
did_change_insert(t) ==
    /\ pc[t] = "apply"
    /\ lock = t
    /\ idx[t] = Len(req[t].changes)
    /\ store' = insert(store, req[t].uri, contents[t])
    /\ opened' = remove(opened, req[t].uri)
    /\ lock' = NoTask
    /\ pc' = [pc EXCEPT ![t] = "done"]
    /\ UNCHANGED <<req, contents, idx, pre, snap, over>>
    /\ TasksOnly

\* completion: the block that locks the store, copies the text of the uri
\* with to_string() and drops the guard.
completion_snapshot(t) ==
    /\ pc[t] = "lock"
    /\ req[t].op = "completion"
    /\ lock = NoTask
    /\ IF contains_key(store, req[t].uri)
       THEN /\ snap' = [snap EXCEPT ![t] = get(store, req[t].uri)]
            /\ pc' = [pc EXCEPT ![t] = "find"]
            /\ over' = [over EXCEPT
                           ![t] = LET running ==
                                        {c \in Tasks :
                                            /\ pc[c] = "apply"
                                            /\ req[c].op = "did_change"
                                            /\ req[c].uri = req[t].uri}
                                  IN  IF running = {} THEN over[t]
                                      ELSE {Overlap(c) : c \in running}]
       ELSE /\ pc' = [pc EXCEPT ![t] = "done"]
            /\ UNCHANGED <<snap, over>>
    /\ UNCHANGED <<store, opened, req, lock, contents, idx, pre>>
    /\ TasksOnly

\* completion: the finders work on the copy, outside the lock.
completion_find(t) ==
    /\ pc[t] = "find"
    /\ pc' = [pc EXCEPT ![t] = "done"]
    /\ UNCHANGED <<store, opened, req, lock, contents, idx, pre, snap, over>>
    /\ TasksOnly

\* formatting: self.store.lock() into `store`, a binding of the whole body,
\* then store.get(&key); on an unknown uri the handler returns at once.
formatting_lock(t) ==
    /\ pc[t] = "lock"
    /\ req[t].op = "formatting"
    /\ lock = NoTask
    /\ IF contains_key(store, req[t].uri)
       THEN lock' = t /\ pc' = [pc EXCEPT ![t] = "format"]
       ELSE pc' = [pc EXCEPT ![t] = "done"] /\ UNCHANGED lock
    /\ UNCHANGED <<store, opened, req, contents, idx, pre, snap, over>>
    /\ TasksOnly

\* A bug to tell from formatting_format: the guard outlives the return on a
\* formatter failure.
formatting_format_leaking(t) ==
    /\ pc[t] = "format"
    /\ lock = t
    /\ lock' = IF req[t].external = "fail" THEN t ELSE NoTask
    /\ pc' = [pc EXCEPT ![t] = "done"]
    /\ UNCHANGED <<store, opened, req, contents, idx, pre, snap, over>>
    /\ TasksOnly

\* formatting: flux::formatter::format on the borrowed text, the edit, and the
\* return, with a result or the formatter's error; `store` is dropped there.
formatting_format(t) ==
    /\ pc[t] = "format"
    /\ lock = t
    /\ lock' = NoTask
    /\ pc' = [pc EXCEPT ![t] = "done"]
    /\ UNCHANGED <<store, opened, req, contents, idx, pre, snap, over>>
    /\ TasksOnly

\* references: self.store.lock() into `store`, a binding of the whole body,
\* then store.get(&key).
references_lock(t) ==
    /\ pc[t] = "lock"
    /\ req[t].op = "references"
    /\ lock = NoTask
    /\ IF contains_key(store, req[t].uri)
       THEN lock' = t /\ pc' = [pc EXCEPT ![t] = "analyze"]
       ELSE pc' = [pc EXCEPT ![t] = "done"] /\ UNCHANGED lock
    /\ UNCHANGED <<store, opened, req, contents, idx, pre, snap, over>>
    /\ TasksOnly

\* references: parse_and_analyze on the borrowed text, find_node,
\* find_references and the return, with the locations or null; `store` is
\* dropped there.
references_analyze(t) ==
    /\ pc[t] = "analyze"
    /\ lock = t
    /\ lock' = NoTask
    /\ pc' = [pc EXCEPT ![t] = "done"]
    /\ UNCHANGED <<store, opened, req, contents, idx, pre, snap, over>>
    /\ TasksOnly

\* The handler has returned.
Finish(t) ==
    /\ pc[t] = "done"
    /\ pc' = [pc EXCEPT ![t] = "idle"]
    /\ req' = [req EXCEPT ![t] = NoMessage]
    /\ contents' = [contents EXCEPT ![t] = <<>>]
    /\ idx' = [idx EXCEPT ![t] = 0]
    /\ pre' = [pre EXCEPT ![t] = <<>>]
    /\ snap' = [snap EXCEPT ![t] = <<>>]
    /\ over' = [over EXCEPT ![t] = {}]
    /\ UNCHANGED <<store, opened, lock>>
    /\ TasksOnly

\* The server after didOpen("u1", "a\nb").
InitOpened ==
    /\ store = {<<"u1", <<"a", NL, "b">>>>}
    /\ msg = NoMessage
    /\ resp = NoResp
    /\ opened = {<<"u1", <<"a", NL, "b">>>>}
    /\ closed = {}
    /\ built = 0

NextTasks ==
    \E t \in Tasks :
        \/ Start(t)
        \/ did_change_lock(t)
        \/ did_change_apply(t)
        \/ did_change_insert(t)
        \/ completion_snapshot(t)
        \/ completion_find(t)
        \/ formatting_lock(t)
        \/ formatting_format(t)
        \/ references_lock(t)
        \/ references_analyze(t)
        \/ Finish(t)

InitTasks == InitOpened /\ InitCallIdle /\ InitRangeIdle /\ InitTasksIdle

SpecTasks == InitTasks /\ [][NextTasks]_vars

\* The requests whose completion is followed: one of each way through each
\* handler that takes the lock.
FairMessages ==
    {m \in TaskMessages :
        /\ Len(m.changes) <= 1
        /\ m.op = "completion" => m.external = "ok"
        /\ m.uri = "u2" => m.external = "ok"}

Submit(t) == Spawn(t, FairMessages)

NextFair ==
    \E t \in Tasks :
        \/ Submit(t)
        \/ did_change_lock(t)
        \/ did_change_apply(t)
        \/ did_change_insert(t)
        \/ completion_snapshot(t)
        \/ completion_find(t)
        \/ formatting_lock(t)
        \/ formatting_format(t)
        \/ references_lock(t)
        \/ references_analyze(t)
        \/ Finish(t)

\* Fair scheduling: a task that can take a step takes one, and a task that
\* can take the lock again and again gets it.
FairTasks ==
    \A t \in Tasks :
        /\ WF_vars(did_change_apply(t) \/ did_change_insert(t)
                       \/ completion_find(t) \/ formatting_format(t)
                       \/ references_analyze(t))
        /\ SF_vars(did_change_lock(t) \/ completion_snapshot(t)
                       \/ formatting_lock(t) \/ references_lock(t))

SpecTasksFair == InitTasks /\ [][NextFair]_vars /\ FairTasks

----------------------------------------------------------------------------
(* The wasm Server: process() spawns one future per message *)

\* The messages given to process: requests and notifications of the router,
\* and lines that are no request.
ProcessMessages ==
    {Message(op, u, FALSE, <<>>, <<>>, g, "ok") :
         op \in {"completion"}, u \in URIs, g \in {"Invoked", ":"}}
        \cup {Message(op, u, FALSE, <<>>, <<>>, "none", "ok") :
                 op \in {"did_open", "hover", "malformed"}, u \in URIs}

\* The handlers that call back into the host and wait for its promise:
\* completion asks for the buckets.
awaits_host(m) == m.op = "completion"

\* A step of a future of process leaves everything but the futures and the
\* router's RefCell alone.
ProcessOnly ==
    UNCHANGED <<mainVars, callVars, rin, rout, rdone, lock, contents, idx, pre, snap,
                over>>

\* process(msg): future_to_promise queues the future and hands the promise to
\* the host.
process(t) ==
    /\ pc[t] = "idle"
    /\ \E m \in ProcessMessages : req' = [req EXCEPT ![t] = m]
    /\ pc' = [pc EXCEPT ![t] = "spawned"]
    /\ UNCHANGED borrow
    /\ ProcessOnly

\* The future is polled for the first time, and runs until it returns or
\* waits for the host.  A message that is no request resolves at once.  For a
\* request router.borrow_mut() takes the RefMut into `h`, and panics when a
\* suspended future holds it; route(req, ctx).await then either returns, `h`
\* is dropped and the promise resolves, or reaches
\* ctx.callbacks.get_buckets().await and is suspended with `h` alive.
process_poll(t) ==
    /\ pc[t] = "spawned"
    /\ IF req[t].op = "malformed"
       THEN pc' = [pc EXCEPT ![t] = "resolved"] /\ UNCHANGED borrow
       ELSE IF borrow # NoTask
       THEN pc' = [pc EXCEPT ![t] = "panicked"] /\ UNCHANGED borrow
       ELSE \/ pc' = [pc EXCEPT ![t] = "resolved"] /\ UNCHANGED borrow
            \/ /\ awaits_host(req[t])
               /\ pc' = [pc EXCEPT ![t] = "callback"]
               /\ borrow' = t
    /\ UNCHANGED req
    /\ ProcessOnly

\* The host's promise settles and the future is polled again: route returns,
\* the response or the error is wrapped, `h` is dropped and the promise
\* resolves.
route_resume(t) ==
    /\ pc[t] = "callback"
    /\ borrow = t
    /\ borrow' = NoTask
    /\ pc' = [pc EXCEPT ![t] = "resolved"]
    /\ UNCHANGED req
    /\ ProcessOnly

\* The host takes the response.
process_resolved(t) ==
    /\ pc[t] = "resolved"
    /\ pc' = [pc EXCEPT ![t] = "idle"]
    /\ req' = [req EXCEPT ![t] = NoMessage]
    /\ UNCHANGED borrow
    /\ ProcessOnly

NextProcess ==
    \E t \in Tasks :
        \/ process(t)
        \/ process_poll(t)
        \/ route_resume(t)
        \/ process_resolved(t)

InitProcess == InitMain /\ InitCallIdle /\ InitRangeIdle /\ InitTasksIdle

SpecProcess == InitProcess /\ [][NextProcess]_vars

----------------------------------------------------------------------------
(* The store and its notifications *)

\* The step in which the handler of op runs.
Handled(op) == msg.op = op /\ resp = NoResp /\ resp' # NoResp

\* What a read of the store returns for key: the set of its texts.
Read(st, key) == {p[2] : p \in entry(st, key)}

\* C1 as stated: whatever text did_open is given for a uri is what the store
\* holds for that uri afterwards.
C1_AnyOpenIsRead ==
    [][Handled("did_open") => Read(store', msg.uri) = {msg.text}]_vars

\* C1, amended: the text did_open is given for a uri that is not in the store
\* is what a read returns, until a didChange, didSave or didClose on that uri.
C1_OpenedIsRead ==
    \A p \in opened : Read(store, p[1]) = {p[2]}

\* An opened document has since been read by a completion request and by a
\* second didOpen of the same uri with another text.
C1_Witness ==
    \E p \in opened :
        /\ resp # NoResp
        /\ msg.uri = p[1]
        /\ \/ msg.op = "completion" /\ resp.kind = "ok"
           \/ msg.op = "did_open" /\ resp.log = "open_on_open" /\ msg.text # p[2]

\* C2: did_open inserts the text iff the uri is absent; on a uri already
\* present the whole store stays as it is.
C2_OpenInsertsIffAbsent ==
    [][Handled("did_open") =>
          IF msg.uri \in keys(store)
          THEN store' = store
          ELSE store' = store \cup {<<msg.uri, msg.text>>}]_vars

C2_Witness ==
    /\ msg.op = "did_open"
    /\ resp.log = "open_on_open"
    /\ Read(store, msg.uri) # {msg.text}

\* The content changes folded from the left over a text.
EventApplied(text, change) ==
    IF change.ranged
    THEN replace_string_in_range(text, change.range, change.text)
    ELSE change.text

RECURSIVE FoldLeft(_, _)
FoldLeft(text, changes) ==
    IF Len(changes) = 0 THEN text
    ELSE EventApplied(FoldLeft(text, SubSeq(changes, 1, Len(changes) - 1)),
                      changes[Len(changes)])

\* C3: did_change on a stored uri leaves the left fold of its content changes
\* over the previous text; full replacements leave the last one's text; and
\* the changes taken in two batches, one after the other, leave the same.
C3_ChangesFolded ==
    [][(Handled("did_change") /\ msg.uri \in keys(store)) =>
          LET before == get(store, msg.uri)
              n == Len(msg.changes)
          IN  /\ Read(store', msg.uri) = {FoldLeft(before, msg.changes)}
              /\ (n > 0 /\ \A k \in 1..n : ~msg.changes[k].ranged)
                     => Read(store', msg.uri) = {msg.changes[n].text}
              /\ \A k \in 0..n :
                     Read(store', msg.uri) =
                         {FoldLeft(FoldLeft(before, SubSeq(msg.changes, 1, k)),
                                   SubSeq(msg.changes, k + 1, n))}]_vars

\* Two content changes were applied, the second a range change, and the text
\* left is neither one's own text.
C3_Witness ==
    /\ msg.op = "did_change"
    /\ resp # NoResp
    /\ resp.log = ""
    /\ Len(msg.changes) = 2
    /\ msg.changes[2].ranged
    /\ \A change \in {msg.changes[1], msg.changes[2]} :
           Read(store, msg.uri) # {change.text}

\* C5: did_close, did_change and did_save on a uri that is not in the store
\* leave the store as it is and answer nothing.
C5_UnknownUriNoEffect ==
    [][\A op \in {"did_close", "did_change", "did_save"} :
          (Handled(op) /\ msg.uri \notin keys(store)) =>
              (store' = store /\ resp'.kind = "none" /\ resp'.code = "")]_vars

C5_Witness ==
    /\ msg.op = "did_change"
    /\ msg.changes # <<>>
    /\ resp.log = "unknown_file"
    /\ store # {}

\* C6: did_save replaces the text of the uri iff it carries a text and the uri
\* is in the store; otherwise the store stays as it is.
C6_SaveReplacesIffTextAndKnown ==
    [][Handled("did_save") =>
          IF msg.hasText /\ msg.uri \in keys(store)
          THEN store' = {p \in store : p[1] # msg.uri} \cup {<<msg.uri, msg.text>>}
          ELSE store' = store]_vars

C6_Witness ==
    /\ msg.op = "did_save"
    /\ msg.hasText
    /\ resp # NoResp
    /\ resp.log = ""
    /\ Read(store, msg.uri) = {msg.text}
    /\ Cardinality(store) = 2

\* C7: did_close removes the entry of its uri and no other; the uri stays out
\* of the store until a did_open, which then stores the text it is given.
C7_CloseRemoves ==
    [][/\ Handled("did_close") =>
              /\ msg.uri \notin keys(store')
              /\ \A u \in URIs \ {msg.uri} : entry(store', u) = entry(store, u)
       /\ closed' \cap keys(store') = {}
       /\ (Handled("did_open") /\ msg.uri \in closed) =>
              Read(store', msg.uri) = {msg.text}]_vars

\* A stored document was closed while another one stayed open.
C7_Witness ==
    /\ msg.op = "did_close"
    /\ resp # NoResp
    /\ resp.log = ""
    /\ msg.uri \in closed
    /\ store # {}

----------------------------------------------------------------------------
(* Requests *)

StoreRequests ==
    {"signature_help", "formatting", "folding_range", "document_symbol",
     "goto_definition", "rename", "references", "completion"}

\* C8: a request on a uri that is not in the store is answered with an error,
\* and the store stays as it is.
C8_UnknownUriIsError ==
    [][\A op \in StoreRequests :
          (Handled(op) /\ msg.uri \notin keys(store)) =>
              (resp'.kind = "error" /\ store' = store)]_vars

C8_Witness ==
    /\ msg.op = "goto_definition"
    /\ resp.kind = "error"
    /\ resp.code = "InvalidParams"
    /\ msg.uri \notin keys(store)
    /\ store # {}

\* C9: a request on a stored uri whose text cannot be analyzed is answered
\* with a null result.
C9_AnalysisFailureIsNull ==
    [][\A op \in StoreRequests \ {"formatting"} :
          (Handled(op) /\ msg.uri \in keys(store) /\ msg.external = "fail") =>
              resp'.kind = "null"]_vars

----------------------------------------------------------------------------
(* Requests racing with a didChange *)

\* C10: the text a query copies is, for the did_change on the same uri that
\* it overlaps, the text stored before it or the text stored after all of
\* its content changes; never one with only some of them applied.
C10_NoTornRead ==
    \A q \in Tasks :
        (req[q].op = "completion" /\ pc[q] \in {"find", "done"}) =>
            \A w \in over[q] : snap[q] \in {w.pre, w.post}

\* A query waited for a did_change of two content changes whose text after
\* the first one is neither the old nor the new text, and then copied the new.
C10_Witness ==
    \E q \in Tasks :
        /\ req[q].op = "completion"
        /\ pc[q] = "find"
        /\ \E w \in over[q] :
               /\ Len(w.changes) = 2
               /\ apply_change(w.pre, w.changes[1]) \notin {w.pre, w.post}
               /\ snap[q] = w.post

----------------------------------------------------------------------------
(* The poisoned lock *)

Notifications == {"did_open", "did_change", "did_save", "did_close"}

\* C11: when the lock of the store is poisoned, each request that takes it is
\* answered with the JSON-RPC error InternalError, and each document
\* notification returns with the store as it was.
C11_PoisonedLock ==
    [][lock_failed =>
          /\ \A op \in StoreRequests :
                 Handled(op) => (resp'.kind = "error" /\ resp'.code = "InternalError")
          /\ \A op \in Notifications : Handled(op) => store' = store]_vars

\* A rename on a stored, analyzable document has been answered under the
\* poisoned lock.
C11_Witness ==
    /\ lock_failed
    /\ resp.op = "rename"
    /\ resp.log = "lock_failed"
    /\ msg.uri \in keys(store)
    /\ msg.external = "ok"

----------------------------------------------------------------------------
(* The function catalog and signature help *)

\* C12: over any sequence of requests the function catalog is constructed at
\* most once.
C12_CatalogBuiltOnce == built <= 1

\* C15: signature_help on a stored, analyzable document at a position with no
\* node, or with a node that is no call, answers a SignatureHelp that is not
\* null, with no signature, no active signature and no active parameter.
C15_NonCallIsEmptyHelp ==
    [][(/\ Handled("signature_help")
        /\ ~lock_failed
        /\ msg.uri \in keys(store)
        /\ msg.external = "ok"
        /\ msg.node \in {"none", "other"}) =>
           /\ resp'.kind = "ok"
           /\ resp'.value = SignatureHelp(0)]_vars

\* signature_help has answered at an identifier that is no call and for which
\* the catalog holds signatures.
C15_Witness ==
    /\ resp.op = "signature_help"
    /\ resp.kind = "ok"
    /\ msg.node = "other"
    /\ msg.sigs > 0
    /\ resp.value = SignatureHelp(0)

----------------------------------------------------------------------------
(* The edit of formatting *)

\* The 0-based position of the last character of text ((0,0) when it has none).
LastCharacter(text) ==
    IF text = <<>> THEN Pos(0, 0)
    ELSE Pos(LineOf(text, Len(text) - 1), CharacterOf(text, Len(text) - 1))

\* The 0-based position after the last character of text: as many lines down
\* as text has line breaks, as many characters in as follow the last of them.
EndOfText(text) == Pos(LineOf(text, Len(text)), CharacterOf(text, Len(text)))

OneEdit(value, end) ==
    /\ value.of = "TextEdits"
    /\ Len(value.edits) = 1
    /\ value.edits[1].range = Rng(Pos(0, 0), end)

\* C16 as stated: formatting on a stored document that the formatter accepts
\* answers one edit from (0,0) to the position of the last character of the
\* document.
C16_EndAtLastCharacter ==
    [][(/\ Handled("formatting")
        /\ ~lock_failed
        /\ msg.uri \in keys(store)
        /\ msg.external = "ok") =>
           /\ resp'.kind = "ok"
           /\ OneEdit(resp'.value, LastCharacter(get(store, msg.uri)))]_vars

\* C16 amended: when the formatter succeeds, formatting on a stored document
\* answers one edit from (0,0) to the position after the last character of
\* the document; when the formatter fails it answers InternalError.
C16_EndPastLastCharacter ==
    [][(Handled("formatting") /\ ~lock_failed /\ msg.uri \in keys(store)) =>
           IF msg.external = "ok"
           THEN /\ resp'.kind = "ok"
                /\ OneEdit(resp'.value, EndOfText(get(store, msg.uri)))
           ELSE /\ resp'.kind = "error"
                /\ resp'.code = "InternalError"]_vars

\* formatting has answered for a document that ends in a line break.
C16_Witness ==
    /\ resp.op = "formatting"
    /\ resp.kind = "ok"
    /\ msg.uri \in keys(store)
    /\ get(store, msg.uri) # <<>>
    /\ get(store, msg.uri)[Len(get(store, msg.uri))] = NL
    /\ OneEdit(resp.value, EndOfText(get(store, msg.uri)))

----------------------------------------------------------------------------
(* The order of the document symbols *)

Before(p, q) == p.line < q.line \/ (p.line = q.line /\ p.character <= q.character)

Count(list, x) == Cardinality({i \in 1..Len(list) : list[i] = x})

\* C14: the list document_symbol returns is in ascending order of
\* (start.line, start.character) and holds each symbol the visitor collected
\* as many times as the visitor collected it.
C14_SymbolsSorted ==
    ret.fn = "document_symbol" =>
        /\ \A i \in 1..(Len(ret.value) - 1) :
               Before(ret.value[i].start, ret.value[i + 1].start)
        /\ Len(ret.value) = Len(call.symbols)
        /\ \A x \in Symbols : Count(ret.value, x) = Count(call.symbols, x)

\* Three symbols collected in descending order, one of them twice, have been
\* sorted.
C14_Witness ==
    /\ ret.fn = "document_symbol"
    /\ Len(call.symbols) = 3
    /\ call.symbols[1] = call.symbols[3]
    /\ call.symbols[1].start = Pos(1, 0)
    /\ call.symbols[2].start = Pos(0, 1)
    /\ ret.value # call.symbols

----------------------------------------------------------------------------
(* rename and references *)

RangesOf(list) == {list[i].range : i \in 1..Len(list)}

EditsOf(edit, key) == (CHOOSE p \in edit.changes : p[1] = key)[2]

\* C13: for one document and position, the ranges of the locations references
\* returns are the ranges of the edits rename makes, and each edit has the new
\* name as its text.
C13_RenameEditsReferences ==
    (ret.fn = "rename_references" /\ ret.done = {"references", "rename"}) =>
        /\ keys(ret.rename.changes) = {call.uri}
        /\ RangesOf(EditsOf(ret.rename, call.uri)) = RangesOf(ret.references)
        /\ \A i \in 1..Len(EditsOf(ret.rename, call.uri)) :
               EditsOf(ret.rename, call.uri)[i].new_text = call.new_name

\* references and rename have answered at a parameter of a function nested
\* in a file that defines the same name: two locations, two edits.
C13_Witness ==
    /\ ret.fn = "rename_references"
    /\ ret.done = {"references", "rename"}
    /\ call.result.node = [kind |-> "Identifier", name |-> "a"]
    /\ Len(call.result.path) = 3
    /\ call.result.path[2].kind = "File"
    /\ call.result.path[3].kind = "FunctionExpr"
    /\ RangesOf(ret.references) = {R2, R3}
    /\ Len(EditsOf(ret.rename, call.uri)) = 2

----------------------------------------------------------------------------
(* Which completables match *)

DotContext(text) == Len(text) > 0 /\ text[Len(text)] = "."

Imported(path, imports) == path \in {imports[i] : i \in 1..Len(imports)}

IsPrefixIgnoringCase(prefix, name) ==
    /\ Len(prefix) <= Len(name)
    /\ \A i \in 1..Len(prefix) :
           \/ prefix[i] = name[i]
           \/ {prefix[i], name[i]} = {"c", "C"}

BeforeDot(text) == [i \in 1..(Len(text) - 1) |-> text[i]]

\* C18: a package matches a text and an import list exactly when its full
\* path is imported, the text does not end in '.', and its short name starts
\* with the text, case ignored.
C18_PackageMatches ==
    (ret.fn = "matches" /\ call.self.kind = "Package") =>
        (ret.value <=>
            /\ Imported(call.self.full_name, call.imports)
            /\ ~DotContext(call.text)
            /\ IsPrefixIgnoringCase(call.text, call.self.name))

\* A package imported second in the list has matched a prefix of its name
\* typed in the other case.
C18_Witness ==
    /\ ret.fn = "matches"
    /\ call.self = PackageResult("y/Cs")
    /\ call.imports = <<"x/cs", "y/Cs">>
    /\ call.text = <<"c">>
    /\ ret.value = TRUE

\* C19: a variable or function of the catalog matches exactly when it is a
\* builtin and the text does not end in '.', or it belongs to an imported
\* package that is not builtin, the text ends in '.', and the text before that
\* '.' is the short name of the package.
C19_MemberMatches ==
    (ret.fn = "matches" /\ call.self.kind \in {"Var", "Function"}) =>
        (ret.value <=>
            \/ call.self.package = "builtin" /\ ~DotContext(call.text)
            \/ /\ call.self.package # "builtin"
               /\ Imported(call.self.package, call.imports)
               /\ DotContext(call.text)
               /\ BeforeDot(call.text) = get_package_name(call.self.package))

\* A function of an imported package has matched its package name and a dot.
C19_Witness ==
    /\ ret.fn = "matches"
    /\ call.self = FunctionResult("x/cs", <<>>, <<>>)
    /\ call.imports = <<"y/Cs", "x/cs">>
    /\ call.text = <<"c", "s", ".">>
    /\ ret.value = TRUE

----------------------------------------------------------------------------
(* The insert text of a function *)

\* The required arguments draw no bucket list from the host.
NoBucketList(c) ==
    \/ \A i \in 1..Len(c.self.required_args) : c.self.required_args[i] # "bucket"
    \/ ~c.buckets.ok
    \/ c.buckets.buckets = <<>>

\* text reads name(a1: $1, ..., an: $n)$0 for the arguments args, n >= 1.
ReadsWithArgs(text, name, args) ==
    LET n == Len(args)
    IN  /\ Len(text) = 4 * n + 2
        /\ text[1] = name
        /\ text[2] = "("
        /\ \A i \in 1..n :
               /\ text[4 * i - 1] = args[i]
               /\ text[4 * i] = ": $"
               /\ text[4 * i + 1] = to_string(i)
               /\ i < n => text[4 * i + 2] = ", "
        /\ text[4 * n + 2] = ")$0"

\* C20: the insert text of a function fn is fn(a1: $1, ..., an: $n)$0 for
\* its required arguments a1..an, n >= 1, none of them a bucket the host
\* lists buckets for; fn($1)$0 with no required and some optional argument;
\* fn()$0 with neither.
C20_InsertText ==
    (ret.fn = "insert_text" /\ NoBucketList(call)) =>
        IF call.self.required_args # <<>>
        THEN ReadsWithArgs(ret.value, call.self.name, call.self.required_args)
        ELSE IF call.self.optional_args # <<>>
             THEN ret.value = <<call.self.name, "(", "$1", ")$0">>
             ELSE ret.value = <<call.self.name, "(", ")$0">>

\* The insert text of a function of two required arguments, the second one
\* bucket with no bucket listed, and one optional argument.
C20_Witness ==
    /\ ret.fn = "insert_text"
    /\ call.self.required_args = <<"a", "bucket">>
    /\ call.self.optional_args = <<"o">>
    /\ call.buckets = [ok |-> TRUE, buckets |-> <<>>]
    /\ ret.value = <<"fn", "(", "a", ": $", "1", ", ", "bucket", ": $", "2", ")$0">>

----------------------------------------------------------------------------
(* Two completion requests with the same arguments *)

ItemsOf(result) == {result.value[i] : i \in 1..Len(result.value)}

\* C17: two completion requests for the same document, position, trigger and
\* host answers return the same set of items, and in each answer every item
\* of the standard library stands before every item of the document.
C17_SameItems ==
    (ret.fn = "find_completions" /\ Len(ret.value) = 2) =>
        /\ ret.value[1].ok = ret.value[2].ok
        /\ ItemsOf(ret.value[1]) = ItemsOf(ret.value[2])
        /\ \A r \in 1..2 : \A i, j \in 1..Len(ret.value[r].value) :
               (/\ ret.value[r].value[i].origin = "stdlib"
                /\ ret.value[r].value[j].origin = "user") => i < j

\* Two requests have walked catalogs built in different orders: the answers
\* list the same items of the library in different orders, then the item of
\* the document.
C17_Witness ==
    /\ ret.fn = "find_completions"
    /\ Len(ret.value) = 2
    /\ ret.value[1].ok
    /\ ret.value[1] # ret.value[2]
    /\ Len(ret.value[1].value) >= 3
    /\ ret.value[1].value[Len(ret.value[1].value)].origin = "user"

----------------------------------------------------------------------------
(* goto_definition at a parameter *)

\* The innermost function expressions of the path that declare name.
Declaring(name, path) ==
    {i \in 1..Len(path) :
        path[i].kind = "FunctionExpr" /\ name \in path[i].params}

\* C21: goto_definition at an identifier whose name is a parameter of an
\* enclosing function expression returns the range of that parameter in the
\* parameter list of the innermost function declaring the name, not the range
\* of the identifier at the position.
C21_ParameterDeclaration ==
    (/\ ret.fn = "goto_definition"
     /\ call.result.node.kind \in {"Identifier", "IdentifierExpr"}
     /\ Declaring(call.result.node.name, call.result.path) # {}) =>
        LET name == call.result.node.name
            f == call.result.path[SetMax(Declaring(name, call.result.path))]
        IN  /\ ret.value.of = "Location"
            /\ ret.value.location.range = param_key_range(f, name)

----------------------------------------------------------------------------
(* Completion by trigger *)

ColonTrigger == Context("TriggerCharacter", Some(":"))

\* One plain-text item per bucket, labelled with it, in the order of buckets.
BucketItems(items, buckets) ==
    /\ Len(items) = Len(buckets)
    /\ \A i \in 1..Len(buckets) :
           /\ items[i].label = buckets[i]
           /\ items[i].kind = "Text"
           /\ items[i].insert_text_format = "PlainText"

\* C22: a completion request triggered by ':' in the name context bucket
\* returns one plain-text item per bucket the host lists, labelled with it
\* and in the host's order; in another name context, or none, an empty list.
C22_BucketItems ==
    (/\ ret.fn = "completion"
     /\ call.context = ColonTrigger
     /\ call.name.ok) =>
        IF call.name.value = Some(<<"bucket">>)
        THEN call.buckets.ok =>
                 /\ ret.value[1].result.ok
                 /\ BucketItems(ret.value[1].result.value, call.buckets.buckets)
        ELSE ret.value[1].result = Ok(<<>>)

\* The contexts that are neither an invoked completion nor one of the
\* triggers '.', ':', '(' and ',': '"', another character, another trigger
\* kind, no context.
OtherContexts ==
    {NoContext,
     Context("TriggerCharacter", Some("\"")),
     Context("TriggerCharacter", Some("x")),
     Context("TriggerForIncompleteCompletions", Some(":"))}

\* C28: a completion request to LspServer with the trigger '"', another
\* character that is none of '.', ':', '(' and ',', a trigger kind other than
\* TriggerCharacter, or no context, is answered as the invoked completion of
\* the same document and position is: by the same finder, with an error in
\* both cases or with the same items.
C28_AsInvoked ==
    (/\ ret.fn = "completion"
     /\ call.server = "LspServer"
     /\ call.context \in OtherContexts
     /\ Len(ret.value) = 2) =>
        /\ ret.value[1].finder = ret.value[2].finder
        /\ ret.value[1].result.ok = ret.value[2].result.ok
        /\ ItemsOf(ret.value[1].result) = ItemsOf(ret.value[2].result)

\* The request triggered by '"' and the invoked one have both answered the
\* items of the library and of the document.
C28_Witness ==
    /\ ret.fn = "completion"
    /\ call.server = "LspServer"
    /\ call.context = Context("TriggerCharacter", Some("\""))
    /\ Len(ret.value) = 2
    /\ ret.value[2].finder = "find_completions"
    /\ ret.value[1].result.ok
    /\ Len(ret.value[1].result.value) >= 2
    /\ ItemsOf(ret.value[1].result) = ItemsOf(ret.value[2].result)

----------------------------------------------------------------------------
(* Ranges that do not fit the text *)

Precedes(p, q) == p.line < q.line \/ (p.line = q.line /\ p.character < q.character)

\* C23: replace_string_in_range returns the text unchanged when the end of
\* the range comes before its start, or when the start or the end does not
\* occur in the text.
C23_BadRangeUnchanged ==
    (/\ rdone
     /\ \/ Precedes(rin.range.end, rin.range.start)
        \/ ~Occurs(rin.contents, rin.range.start)
        \/ ~Occurs(rin.contents, rin.range.end)) =>
        rout = rin.contents

----------------------------------------------------------------------------
(* How long the lock is held *)

\* C24: no handler formats or analyzes a document while it holds the lock of
\* the store.
C24_LockOnlyForCopy ==
    \A t \in Tasks : pc[t] \in {"format", "analyze"} => lock # t

----------------------------------------------------------------------------
(* The scope of find_references *)

Qualifies(name, n) ==
    \/ n.kind = "FunctionExpr" /\ name \in n.params
    \/ n.kind \in {"Package", "File"} /\ name \in n.definitions

\* The index of the innermost node of path that qualifies as the scope of
\* name, walking from the node outwards; 0 if none does.
RECURSIVE ScopeOf(_, _)
ScopeOf(name, path) ==
    IF path = <<>> THEN 0
    ELSE IF Qualifies(name, path[Len(path)]) THEN Len(path)
    ELSE ScopeOf(name, SubSeq(path, 1, Len(path) - 1))

\* C25: references returns the locations of exactly the identifiers of the
\* name at the position that lie in its scope, the innermost node of the path
\* that is a function expression with a parameter of that name or a file or
\* package holding a definition of it; and no location when the node is no
\* identifier or no node of the path qualifies.
C25_ReferencesInScope ==
    (ret.fn = "rename_references" /\ "references" \in ret.done) =>
        LET name == call.result.node.name
            scope == ScopeOf(name, call.result.path)
        IN  IF \/ call.result.node.kind \notin {"Identifier", "IdentifierExpr"}
               \/ scope = 0
            THEN ret.references = <<>>
            ELSE LET inside == call.result.path[scope].identifiers[name]
                 IN  /\ Len(ret.references) = Len(inside)
                     /\ \A i \in 1..Len(inside) :
                            /\ ret.references[i].uri = call.uri
                            /\ ret.references[i].range = inside[i]

\* references at a name that a function parameter shadows: the file defines
\* the name and holds an identifier of it outside the function, which is not
\* among the locations.
C25_Witness ==
    /\ ret.fn = "rename_references"
    /\ "references" \in ret.done
    /\ call.result.node = [kind |-> "IdentifierExpr", name |-> "a"]
    /\ Len(call.result.path) = 2
    /\ call.result.path[1].kind = "File"
    /\ "a" \in call.result.path[1].definitions
    /\ call.result.path[2].kind = "FunctionExpr"
    /\ "a" \in call.result.path[2].params
    /\ R1 \in RangesOf([i \in 1..3 |-> [range |-> call.result.path[1].identifiers["a"][i]]])
    /\ RangesOf(ret.references) = {R2, R3}

----------------------------------------------------------------------------
(* The bucket argument of an insert text *)

\* The characters of a piece of an insert text; a name is one character here.
Spelled(piece) ==
    CASE piece = ": $" -> <<":", " ", "$">>
      [] piece = ": " -> <<":", " ">>
      [] piece = "${" -> <<"$", "{">>
      [] piece = "|}" -> <<"|", "}">>
      [] piece = ", " -> <<",", " ">>
      [] piece = "$1" -> <<"$", "1">>
      [] piece = ")$0" -> <<")", "$", "0">>
      [] OTHER -> <<piece>>

\* The text the pieces make, character by character.
RECURSIVE Flat(_)
Flat(pieces) ==
    IF pieces = <<>> THEN <<>> ELSE Spelled(Head(pieces)) \o Flat(Tail(pieces))

\* b1,b2,...
RECURSIVE CommaList(_)
CommaList(list) ==
    IF Len(list) <= 1 THEN list
    ELSE <<Head(list), ",">> \o CommaList(Tail(list))

\* The argument at 0-based index as specified: a choice among the
\* buckets for bucket when the host lists some, and arg: $N otherwise.
ArgumentText(arg, index, buckets) ==
    IF arg = "bucket" /\ buckets.ok /\ buckets.buckets # <<>>
    THEN <<"bucket", ": ", "${", to_string(index + 1), "|">>
             \o CommaList(buckets.buckets) \o <<"|}">>
    ELSE <<arg, ": ", "$", to_string(index + 1)>>

RECURSIVE ArgumentsText(_, _, _)
ArgumentsText(args, index, buckets) ==
    IF index >= Len(args) THEN <<>>
    ELSE ArgumentText(args[index + 1], index, buckets)
             \o (IF index + 1 < Len(args) THEN <<", ">> ELSE <<>>)
             \o ArgumentsText(args, index + 1, buckets)

\* C26: in the insert text of a function with required arguments, bucket at
\* index N-1 reads bucket: ${N|b1,b2,...|} when the host lists the buckets
\* b1, b2, ..., and bucket: $N when it fails or lists none; every other
\* argument reads arg: $N.
C26_BucketChoice ==
    (ret.fn = "insert_text" /\ call.self.required_args # <<>>) =>
        Flat(ret.value) =
            Flat(<<call.self.name, "(">>
                     \o ArgumentsText(call.self.required_args, 0, call.buckets)
                     \o <<")$0">>)

----------------------------------------------------------------------------
(* Overlapping calls of process *)

\* C27: of two requests given to process, the second while the first is
\* suspended at a host callback, neither panics: each runs on to its response.
C27_OverlapCompletes ==
    \A t \in Tasks : pc[t] # "panicked"

----------------------------------------------------------------------------
(* What a message may change in the store *)

\* C30: the entry of a uri changes only in the step of a did_open,
\* did_change, did_save or did_close for that uri: no request changes the
\* store, and no notification changes the entry of another uri.
C30_StoreFrame ==
    [][\A u \in URIs :
          entry(store', u) # entry(store, u) =>
              \E op \in Notifications : Handled(op) /\ msg.uri = u]_vars

\* A did_save has replaced the text of its uri while the document opened
\* under the other uri is stored as it was opened.
C30_Witness ==
    /\ msg.op = "did_save"
    /\ msg.hasText
    /\ resp # NoResp
    /\ resp.log = ""
    /\ \E p \in opened :
           /\ p[1] # msg.uri
           /\ p[2] # msg.text
           /\ Read(store, p[1]) = {p[2]}

====
